---- MODULE Spec2Model ----
(***************************************************************************)
(* A model of the DSA verification circuit of zkp-dsa-r1cs:                *)
(*   utils.rs    modular_inverse, extended_gcd, modular_exponentiation     *)
(*   circuit.rs  DSAVerificationCircuit::generate_constraints              *)
(*   main.rs     the public-input vector handed to verify                  *)
(*                                                                         *)
(* Machine words are WordBits wide (u64 / i64 in the source, scaled down   *)
(* so that wraparound and the unsigned-to-signed cast are reachable).      *)
(* Field elements of Fr are modelled as integers: every value that enters  *)
(* a constraint is below 2^(2*WordBits), far below the field's             *)
(* characteristic, so a field equation holds exactly when the integer      *)
(* equation does.                                                          *)
(***************************************************************************)
EXTENDS Integers, Sequences, FiniteSets, TLC

VARIABLES circuit, pc, result, wrapped, loc, vars, cs, public_inputs, assignment, is_valid, gad

allvars == <<circuit, pc, result, wrapped, loc, vars, cs, public_inputs, assignment, is_valid, gad>>

(***************************************************************************)
(* Bounds of the model.                                                    *)
(***************************************************************************)
\* width of a machine word (64 in the source)
WordBits == 6
\* s is drawn from 0..MaxS and the words around the sign bit
MaxS == 3
\* q is drawn from 0..MaxQ and the words around the sign bit
MaxQ == 4
\* h_x is drawn from 0..MaxH and the largest word
MaxH == 2
\* r is drawn from 0..MaxR
MaxR == 2
\* operands of the stand-alone gadget block are drawn from 0..MaxOperand
MaxOperand == 4
\* moduli of the stand-alone gadget block are drawn from 1..MaxModulus
MaxModulus == 4
\* the supplied remainder is off by -MaxDelta..MaxDelta
MaxDelta == 2
\* a tampered public input is drawn from 0..MaxTamper
MaxTamper == 4
\* forged exponentiation witnesses are drawn from 0..MaxForge
MaxForge == 9
\* forged residue witnesses are drawn from 0..MaxResidue
MaxResidue == 2

WordMod == 2 ^ WordBits
HighBit == WordMod \div 2
MinS == 0 - HighBit

(***************************************************************************)
(* Machine arithmetic.                                                     *)
(***************************************************************************)
Abs(x) == IF x < 0 THEN 0 - x ELSE x
Sign(x) == IF x < 0 THEN 0 - 1 ELSE 1

\* `as i64`: the same bits read as a two's-complement number
AsSigned(u) == IF u >= HighBit THEN u - WordMod ELSE u
\* `as u64`: the same bits read as an unsigned number
AsUnsigned(x) == x % WordMod
\* the value a signed operation keeps when it wraps
WrapSigned(x) == ((x + HighBit) % WordMod) - HighBit
\* Rust's `/` and `%` on signed integers truncate toward zero
TruncDiv(b, a) == Sign(b) * Sign(a) * (Abs(b) \div Abs(a))
TruncRem(b, a) == Sign(b) * (Abs(b) % Abs(a))
\* into_repr().as_ref()[0] as u64: the lowest limb of a field element
LowLimb(f) == f % WordMod

(***************************************************************************)
(* utils.rs                                                                *)
(***************************************************************************)
RECURSIVE extended_gcd(_, _)
extended_gcd(a, b) ==
    IF a = 0
    THEN [g |-> b, x |-> 0, y |-> 1, ovf |-> FALSE, panic |-> FALSE]
    ELSE IF a = 0 - 1 /\ b = MinS
    THEN [g |-> 0, x |-> 0, y |-> 0, ovf |-> FALSE, panic |-> TRUE]
    ELSE LET e == extended_gcd(TruncRem(b, a), a)
             m == TruncDiv(b, a) * e.x
             d == e.y - WrapSigned(m)
         IN  IF e.panic
             THEN e
             ELSE [g |-> e.g, x |-> WrapSigned(d), y |-> e.x,
                   ovf |-> e.ovf \/ m # WrapSigned(m) \/ d # WrapSigned(d),
                   panic |-> FALSE]

modular_inverse(a, m) ==
    LET e == extended_gcd(AsSigned(a), AsSigned(m))
        ms == AsSigned(m)
        t1 == TruncRem(e.x, ms)
        t2 == t1 + ms
        t3 == TruncRem(WrapSigned(t2), ms)
    IN  IF e.panic
        THEN [status |-> "panic", val |-> 0, ovf |-> e.ovf]
        ELSE IF e.g # 1
        THEN [status |-> "err", val |-> 0, ovf |-> e.ovf]
        ELSE IF ms = 0
        THEN [status |-> "panic", val |-> 0, ovf |-> e.ovf]
        ELSE [status |-> "ok", val |-> AsUnsigned(t3),
              ovf |-> e.ovf \/ t2 # WrapSigned(t2)]

RECURSIVE ModExpLoop(_, _, _, _, _)
ModExpLoop(res, base, exp, modulus, ovf) ==
    IF exp = 0
    THEN [status |-> "ok", val |-> res, ovf |-> ovf]
    ELSE LET odd == exp % 2 = 1
             rb == res * base
             bb == base * base
         IN  ModExpLoop(IF odd THEN (rb % WordMod) % modulus ELSE res,
                        (bb % WordMod) % modulus,
                        exp \div 2,
                        modulus,
                        ovf \/ (odd /\ rb >= WordMod) \/ bb >= WordMod)

modular_exponentiation(base, exp, modulus) ==
    IF modulus = 0
    THEN [status |-> "panic", val |-> 0, ovf |-> FALSE]
    ELSE ModExpLoop(1, base % modulus, exp, modulus, FALSE)

\* an unsigned product followed by `% modulus`
MulMod(a, b, modulus) ==
    IF modulus = 0
    THEN [status |-> "panic", val |-> 0, prod |-> (a * b) % WordMod, ovf |-> a * b >= WordMod]
    ELSE [status |-> "ok", val |-> ((a * b) % WordMod) % modulus,
          prod |-> (a * b) % WordMod, ovf |-> a * b >= WordMod]

(***************************************************************************)
(* circuit.rs: the witness computation of generate_constraints.            *)
(* Every step runs only if the steps before it neither returned nor        *)
(* panicked; ovf records whether an executed operation overflowed.         *)
(***************************************************************************)
NoLocals ==
    [s |-> 0, q |-> 0, h_x |-> 0, r |-> 0, g |-> 0, p |-> 0, y |-> 0,
     w |-> 0, u1 |-> 0, u2 |-> 0, g_u1 |-> 0, y_u2 |-> 0, v |-> 0,
     v_mod_q |-> 0, r_mod_q |-> 0]

\* the outcome of one fallible step folded into the computation so far
Then(st, step, vals) ==
    [status |-> step.status, ovf |-> st.ovf \/ step.ovf,
     vals |-> IF step.status = "ok" THEN vals ELSE st.vals]

\* lines 22-24: s_val, q_val, w_val = modular_inverse(s_val, q_val)?
StepInverse(c, inv) ==
    Then([status |-> "ok", ovf |-> FALSE, vals |-> NoLocals], inv,
         [NoLocals EXCEPT !.s = LowLimb(c.s), !.q = LowLimb(c.q), !.w = inv.val])

\* lines 25-26: h_x_val, u1_val = (h_x_val * w_val) % q_val
StepU1(c, st, u1) ==
    Then(st, u1, [st.vals EXCEPT !.h_x = LowLimb(c.h_x), !.u1 = u1.val])

\* lines 27-28: r_val, u2_val = (r_val * w_val) % q_val
StepU2(c, st, u2) ==
    Then(st, u2, [st.vals EXCEPT !.r = LowLimb(c.r), !.u2 = u2.val])

\* lines 29-31: g_val, p_val, g_u1_val = modular_exponentiation(g_val, u1_val, p_val)
StepGU1(c, st, g_u1) ==
    Then(st, g_u1, [st.vals EXCEPT !.g = LowLimb(c.g), !.p = LowLimb(c.p),
                                   !.g_u1 = g_u1.val])

\* lines 32-33: y_val, y_u2_val = modular_exponentiation(y_val, u2_val, p_val)
StepYU2(c, st, y_u2) ==
    Then(st, y_u2, [st.vals EXCEPT !.y = LowLimb(c.y), !.y_u2 = y_u2.val])

\* lines 34-36: v_val, v_mod_q_val, r_mod_q_val
StepV(st, v) ==
    Then(st, v, [st.vals EXCEPT !.v = v.val, !.v_mod_q = v.val % st.vals.q,
                                !.r_mod_q = st.vals.r % st.vals.q])

AfterInverse(c, st) ==
    IF st.status # "ok" THEN st
    ELSE StepU1(c, st, MulMod(LowLimb(c.h_x), st.vals.w, st.vals.q))

AfterU1(c, st) ==
    IF st.status # "ok" THEN st
    ELSE StepU2(c, st, MulMod(LowLimb(c.r), st.vals.w, st.vals.q))

AfterU2(c, st) ==
    IF st.status # "ok" THEN st
    ELSE StepGU1(c, st, modular_exponentiation(LowLimb(c.g), st.vals.u1, LowLimb(c.p)))

AfterGU1(c, st) ==
    IF st.status # "ok" THEN st
    ELSE StepYU2(c, st, modular_exponentiation(LowLimb(c.y), st.vals.u2, st.vals.p))

AfterYU2(st) ==
    IF st.status # "ok" THEN st
    ELSE StepV(st, MulMod(st.vals.g_u1, st.vals.y_u2, st.vals.p))

\* lines 22-36 as a whole: status "ok", "err" (the ? at line 24) or "panic"
WitnessComputation(c) ==
    AfterYU2(AfterGU1(c, AfterU2(c, AfterU1(c, AfterInverse(c,
        StepInverse(c, modular_inverse(LowLimb(c.s), LowLimb(c.q))))))))

(***************************************************************************)
(* The constraint system the circuit writes to (ConstraintSystemRef): the  *)
(* instance assignment starts with the constant 1, variables are handed    *)
(* out in allocation order, constraints are appended. log records the      *)
(* order of the calls.                                                     *)
(***************************************************************************)
One == <<"One", 0>>
Instance(i) == <<"Instance", i>>
Witness(j) == <<"Witness", j>>

EmptyCS ==
    [instance_assignment |-> <<1>>, witness_assignment |-> <<>>,
     constraints |-> <<>>, log |-> <<>>]

new_input_variable(c, val) ==
    [cs |-> [c EXCEPT !.instance_assignment = Append(@, val),
                      !.log = Append(@, "input")],
     var |-> Instance(Len(c.instance_assignment))]

new_witness_variable(c, val) ==
    [cs |-> [c EXCEPT !.witness_assignment = Append(@, val),
                      !.log = Append(@, "witness")],
     var |-> Witness(Len(c.witness_assignment))]

enforce_constraint(c, a, b, cc) ==
    [c EXCEPT !.constraints = Append(@, [a |-> a, b |-> b, c |-> cc]),
              !.log = Append(@, "constraint")]

\* a linear combination is a sequence of <<coefficient, variable>> terms
ValueOf(var, inst, wit) ==
    IF var[1] = "One" THEN 1
    ELSE IF var[1] = "Instance" THEN inst[var[2] + 1]
    ELSE wit[var[2] + 1]

RECURSIVE EvalLC(_, _, _)
EvalLC(lc, inst, wit) ==
    IF lc = <<>> THEN 0
    ELSE Head(lc)[1] * ValueOf(Head(lc)[2], inst, wit) + EvalLC(Tail(lc), inst, wit)

ConstraintHolds(k, inst, wit) ==
    EvalLC(k.a, inst, wit) * EvalLC(k.b, inst, wit) = EvalLC(k.c, inst, wit)

\* is_satisfied: every constraint a * b = c holds under the two assignments
Satisfied(constraints, inst, wit) ==
    \A i \in 1..Len(constraints) : ConstraintHolds(constraints[i], inst, wit)

(***************************************************************************)
(* One modular-reduction block of generate_constraints: four witnesses     *)
(* (product, remainder, quotient, modulus * quotient) and four constraints *)
(*   a * b = product                                                       *)
(*   modulus * quotient = quotient_times_modulus                           *)
(*   (product - quotient_times_modulus) * 1 = remainder                    *)
(*   (remainder - expected) * 1 = 0                                        *)
(* The source writes the block out four times; names are the handles of    *)
(* the four witnesses of one copy.                                         *)
(***************************************************************************)
\* the block without its first constraint, a * b = product
GadgetBlockNoProduct(c, vs, names, a, b, m, prodVal, remVal, quotVal, qtVal, expected) ==
    LET n1 == new_witness_variable(c, prodVal)
        n2 == new_witness_variable(n1.cs, remVal)
        n3 == new_witness_variable(n2.cs, quotVal)
        n4 == new_witness_variable(n3.cs, qtVal)
        e2 == enforce_constraint(n4.cs, <<<<1, m>>>>, <<<<1, n3.var>>>>, <<<<1, n4.var>>>>)
        e3 == enforce_constraint(e2, <<<<1, n1.var>>, <<0 - 1, n4.var>>>>,
                                 <<<<1, One>>>>, <<<<1, n2.var>>>>)
        e4 == enforce_constraint(e3, <<<<1, n2.var>>, <<0 - 1, expected>>>>,
                                 <<<<1, One>>>>, <<<<0, One>>>>)
    IN  [cs |-> e4,
         vars |-> vs @@ (names[1] :> n1.var) @@ (names[2] :> n2.var)
                     @@ (names[3] :> n3.var) @@ (names[4] :> n4.var)]

\* the block with product + quotient_times_modulus in its third constraint
GadgetBlockAdds(c, vs, names, a, b, m, prodVal, remVal, quotVal, qtVal, expected) ==
    LET n1 == new_witness_variable(c, prodVal)
        n2 == new_witness_variable(n1.cs, remVal)
        n3 == new_witness_variable(n2.cs, quotVal)
        n4 == new_witness_variable(n3.cs, qtVal)
        e1 == enforce_constraint(n4.cs, <<<<1, a>>>>, <<<<1, b>>>>, <<<<1, n1.var>>>>)
        e2 == enforce_constraint(e1, <<<<1, m>>>>, <<<<1, n3.var>>>>, <<<<1, n4.var>>>>)
        e3 == enforce_constraint(e2, <<<<1, n1.var>>, <<1, n4.var>>>>,
                                 <<<<1, One>>>>, <<<<1, n2.var>>>>)
        e4 == enforce_constraint(e3, <<<<1, n2.var>>, <<0 - 1, expected>>>>,
                                 <<<<1, One>>>>, <<<<0, One>>>>)
    IN  [cs |-> e4,
         vars |-> vs @@ (names[1] :> n1.var) @@ (names[2] :> n2.var)
                     @@ (names[3] :> n3.var) @@ (names[4] :> n4.var)]

GadgetBlock(c, vs, names, a, b, m, prodVal, remVal, quotVal, qtVal, expected) ==
    LET n1 == new_witness_variable(c, prodVal)
        n2 == new_witness_variable(n1.cs, remVal)
        n3 == new_witness_variable(n2.cs, quotVal)
        n4 == new_witness_variable(n3.cs, qtVal)
        e1 == enforce_constraint(n4.cs, <<<<1, a>>>>, <<<<1, b>>>>, <<<<1, n1.var>>>>)
        e2 == enforce_constraint(e1, <<<<1, m>>>>, <<<<1, n3.var>>>>, <<<<1, n4.var>>>>)
        e3 == enforce_constraint(e2, <<<<1, n1.var>>, <<0 - 1, n4.var>>>>,
                                 <<<<1, One>>>>, <<<<1, n2.var>>>>)
        e4 == enforce_constraint(e3, <<<<1, n2.var>>, <<0 - 1, expected>>>>,
                                 <<<<1, One>>>>, <<<<0, One>>>>)
    IN  [cs |-> e4,
         vars |-> vs @@ (names[1] :> n1.var) @@ (names[2] :> n2.var)
                     @@ (names[3] :> n3.var) @@ (names[4] :> n4.var)]

\* the block as the source fills it in: remainder, quotient and
\* modulus * quotient computed from the product and the modulus
HonestBlock(c, vs, names, a, b, m, prodVal, modVal, expected) ==
    GadgetBlock(c, vs, names, a, b, m, prodVal, prodVal % modVal,
                prodVal \div modVal, modVal * (prodVal \div modVal), expected)

(***************************************************************************)
(* State.                                                                  *)
(*   circuit        the DSAVerificationCircuit (seven field elements)      *)
(*   pc             the position inside generate_constraints / main        *)
(*   result         "none", "Ok", "Err" (SynthesisError) or "Panic"        *)
(*   wrapped        an overflow has wrapped (a build without overflow      *)
(*                  checks); a build with them panics instead              *)
(*   loc            the integer locals of generate_constraints             *)
(*   vars           the variable handles returned by the allocations       *)
(*   cs             the constraint system                                  *)
(*   public_inputs  the vector given to verify                             *)
(*   assignment     the witness assignment the proof is made from          *)
(*   is_valid       the verification result                                *)
(*   gad            operands of a stand-alone gadget block                 *)
(***************************************************************************)
\* the allocation order with p and q exchanged
InputOrderSwapped == <<"y", "h_x", "r", "s", "q", "p", "g">>

InputOrder == <<"y", "h_x", "r", "s", "p", "q", "g">>
WitnessOrder == <<"w", "u1", "u2", "g_u1", "y_u2", "v", "v_mod_q", "r_mod_q">>

EmptyVars == [n \in {} |-> One]
NoGadget == [a |-> 0, b |-> 0, m |-> 0, delta |-> 0]

SWords == (0..MaxS) \cup {HighBit - 1, HighBit, HighBit + 1, WordMod - 1}
QWords == (0..MaxQ) \cup {HighBit + 1, WordMod - 2, WordMod - 1}
HWords == (0..MaxH) \cup {WordMod - 1}
RWords == 0..MaxR
PWords == {0, 1, 5, 7}
GWords == {2, 3}
YWords == {3, 4}

Circuits ==
    [y : YWords, h_x : HWords, r : RWords, s : SWords, p : PWords, q : QWords, g : GWords]

Fresh ==
    /\ pc = "start"
    /\ result = "none"
    /\ wrapped = FALSE
    /\ loc = NoLocals
    /\ vars = EmptyVars
    /\ cs = EmptyCS
    /\ public_inputs = <<>>
    /\ assignment = <<>>
    /\ is_valid = "none"

Init ==
    /\ circuit \in Circuits
    /\ gad = NoGadget
    /\ Fresh

(***************************************************************************)
(* generate_constraints, step by step.                                     *)
(***************************************************************************)
\* a return that comes after the first public input has been allocated
StopAfterAllocation(r, w) ==
    /\ result' = r
    /\ pc' = "done"
    /\ wrapped' = w
    /\ cs' = new_input_variable(cs, circuit.y).cs
    /\ UNCHANGED <<circuit, loc, vars, public_inputs, assignment, is_valid, gad>>

\* generate_constraints ends here: with the error of line 24, or by a panic
Stop(r, w) ==
    /\ result' = r
    /\ pc' = "done"
    /\ wrapped' = w
    /\ UNCHANGED <<circuit, loc, vars, cs, public_inputs, assignment, is_valid, gad>>

\* lines 22-36: the integer witnesses. An overflow panics in a build with
\* overflow checks and wraps in a build without them.
ComputeOutcome(W) ==
    \/ /\ W.ovf
       /\ Stop("Panic", FALSE)
    \/ /\ W.status = "err"
       /\ Stop("Err", W.ovf)
    \/ /\ W.status = "panic"
       /\ Stop("Panic", W.ovf)
    \/ /\ W.status = "ok"
       /\ loc' = W.vals
       /\ wrapped' = W.ovf
       /\ pc' = "alloc_inputs"
       /\ UNCHANGED <<circuit, result, vars, cs, public_inputs, assignment, is_valid, gad>>

ComputeWitness ==
    /\ pc = "start"
    /\ ComputeOutcome(WitnessComputation(circuit))

\* lines 44-50: the next public input, in the order of InputOrder
AllocInput ==
    /\ pc = "alloc_inputs"
    /\ LET k == Len(cs.instance_assignment)
           n == new_input_variable(cs, circuit[InputOrder[k]])
       IN  /\ cs' = n.cs
           /\ vars' = vars @@ (InputOrder[k] :> n.var)
           /\ pc' = IF k = Len(InputOrder) THEN "alloc_witnesses" ELSE pc
    /\ UNCHANGED <<circuit, result, wrapped, loc, public_inputs, assignment, is_valid, gad>>

\* lines 53-60: the next witness, in the order of WitnessOrder
AllocWitness ==
    /\ pc = "alloc_witnesses"
    /\ LET j == Len(cs.witness_assignment) + 1
           n == new_witness_variable(cs, loc[WitnessOrder[j]])
       IN  /\ cs' = n.cs
           /\ vars' = vars @@ (WitnessOrder[j] :> n.var)
           /\ pc' = IF j = Len(WitnessOrder) THEN "ws" ELSE pc
    /\ UNCHANGED <<circuit, result, wrapped, loc, public_inputs, assignment, is_valid, gad>>

Advance(blk, next) ==
    /\ cs' = blk.cs
    /\ vars' = blk.vars
    /\ pc' = next
    /\ UNCHANGED <<circuit, result, loc, public_inputs, assignment, is_valid, gad>>

\* lines 66-82: w * s = 1 mod q. w_val * s_val is first computed here.
GadgetWS ==
    /\ pc = "ws"
    /\ LET ovf == loc.w * loc.s >= WordMod
           blk == HonestBlock(cs, vars,
                      <<"ws", "ws_remainder", "ws_quotient", "q_times_ws_quotient">>,
                      vars["w"], vars["s"], vars["q"],
                      (loc.w * loc.s) % WordMod, loc.q, One)
       IN  \/ /\ ovf
              /\ ~wrapped
              /\ Stop("Panic", FALSE)
           \/ /\ wrapped' = (wrapped \/ ovf)
              /\ Advance(blk, "u1")

\* the u1 block with g_u1_var written for u1_var in its last constraint
GadgetU1Typo ==
    /\ pc = "u1"
    /\ Advance(HonestBlock(cs, vars,
                   <<"u1_product", "u1_remainder", "u1_quotient", "q_times_u1_quotient">>,
                   vars["h_x"], vars["w"], vars["q"],
                   (loc.h_x * loc.w) % WordMod, loc.q, vars["g_u1"]), "u2")
    /\ UNCHANGED wrapped

\* lines 84-100: u1 = h_x * w mod q. The product was computed at line 26:
\* an overflow of it has wrapped there.
GadgetU1 ==
    /\ pc = "u1"
    /\ Advance(HonestBlock(cs, vars,
                   <<"u1_product", "u1_remainder", "u1_quotient", "q_times_u1_quotient">>,
                   vars["h_x"], vars["w"], vars["q"],
                   (loc.h_x * loc.w) % WordMod, loc.q, vars["u1"]), "u2")
    /\ UNCHANGED wrapped

\* lines 102-118: u2 = r * w mod q
GadgetU2 ==
    /\ pc = "u2"
    /\ Advance(HonestBlock(cs, vars,
                   <<"u2_product", "u2_remainder", "u2_quotient", "q_times_u2_quotient">>,
                   vars["r"], vars["w"], vars["q"],
                   (loc.r * loc.w) % WordMod, loc.q, vars["u2"]), "v")
    /\ UNCHANGED wrapped

\* lines 120-136: v = g_u1 * y_u2 mod p
GadgetV ==
    /\ pc = "v"
    /\ Advance(HonestBlock(cs, vars,
                   <<"v_product", "v_remainder", "v_quotient", "p_times_v_quotient">>,
                   vars["g_u1"], vars["y_u2"], vars["p"],
                   (loc.g_u1 * loc.y_u2) % WordMod, loc.p, vars["v"]), "final")
    /\ UNCHANGED wrapped

\* lines 138-145: v_mod_q == r_mod_q, then Ok(())
FinalEquality ==
    /\ pc = "final"
    /\ cs' = enforce_constraint(cs,
                 <<<<1, vars["v_mod_q"]>>, <<0 - 1, vars["r_mod_q"]>>>>,
                 <<<<1, One>>>>, <<<<0, One>>>>)
    /\ result' = "Ok"
    /\ pc' = "done"
    /\ UNCHANGED <<circuit, wrapped, loc, vars, public_inputs, assignment, is_valid, gad>>

(***************************************************************************)
(* main.rs: the public-input vector and the verification of the proof.     *)
(* A Groth16 proof made from a witness assignment verifies against a       *)
(* public-input vector exactly when the two satisfy every constraint; the  *)
(* pairing check itself is the backend's.                                  *)
(***************************************************************************)
PublicInputs(c) == <<c.y, c.h_x, c.r, c.s, c.p, c.q, c.g>>

Accepts(pi, wa) ==
    IF Satisfied(cs.constraints, <<1>> \o pi, wa) THEN "accept" ELSE "reject"

VerifyWith(pi, wa) ==
    /\ pc = "done"
    /\ result = "Ok"
    /\ public_inputs' = pi
    /\ assignment' = wa
    /\ is_valid' = Accepts(pi, wa)
    /\ pc' = "verified"
    /\ UNCHANGED <<circuit, result, wrapped, loc, vars, cs, gad>>

\* lines 24-43: prove, then verify against the circuit's own values
Verify == VerifyWith(PublicInputs(circuit), cs.witness_assignment)

\* the witness assignment with the witnesses named by names replaced by vals
RECURSIVE Replace(_, _, _)
Replace(wa, names, vals) ==
    IF names = <<>> THEN wa
    ELSE Replace([wa EXCEPT ![vars[Head(names)][2] + 1] = Head(vals)],
                 Tail(names), Tail(vals))

ValueIn(wa, name) == wa[vars[name][2] + 1]

\* verify against a vector that differs from the circuit's values in one position
VerifyTampered ==
    \E i \in 1..Len(InputOrder), val \in 0..MaxTamper :
        /\ val # PublicInputs(circuit)[i]
        /\ VerifyWith([PublicInputs(circuit) EXCEPT ![i] = val], cs.witness_assignment)

\* a proof made from other exponentiation results: g_u1 and y_u2 are chosen
\* with g_u1 * y_u2 mod p = v, and the product, quotient and modulus *
\* quotient of the v block follow from them; every other witness is the one
\* synthesis computed
ForgeExponentiation(wa, g1, y1) ==
    Replace(wa, <<"g_u1", "y_u2", "v_product", "v_quotient", "p_times_v_quotient">>,
            <<g1, y1, g1 * y1, (g1 * y1) \div loc.p, loc.p * ((g1 * y1) \div loc.p)>>)

VerifyForgedExponentiation ==
    \E g1 \in 0..MaxForge, y1 \in 0..MaxForge :
        /\ pc = "done"
        /\ result = "Ok"
        /\ <<g1, y1>> # <<loc.g_u1, loc.y_u2>>
        /\ (g1 * y1) % loc.p = loc.v
        /\ VerifyWith(PublicInputs(circuit), ForgeExponentiation(cs.witness_assignment, g1, y1))

\* a proof made from other residues: v_mod_q and r_mod_q are chosen freely
VerifyForgedResidues ==
    \E vq \in 0..MaxResidue, rq \in 0..MaxResidue :
        /\ <<vq, rq>> # <<loc.v_mod_q, loc.r_mod_q>>
        /\ VerifyWith(PublicInputs(circuit),
                      Replace(cs.witness_assignment, <<"v_mod_q", "r_mod_q">>, <<vq, rq>>))

Synthesis ==
    \/ ComputeWitness
    \/ AllocInput
    \/ AllocWitness
    \/ GadgetWS
    \/ GadgetU1
    \/ GadgetU2
    \/ GadgetV
    \/ FinalEquality

(***************************************************************************)
(* Spec: synthesis over every input word, then verification of the proof.  *)
(***************************************************************************)
Next ==
    \/ Synthesis
    \/ Verify

Spec == Init /\ [][Next]_allvars

(***************************************************************************)
(* SpecProver: synthesis over well-formed parameters (p, q non-zero, s     *)
(* non-zero), then verification of a proof against the matching or a       *)
(* tampered public-input vector, or of a proof made from another witness   *)
(* assignment.                                                             *)
(***************************************************************************)
ProverCircuits ==
    [y : YWords, h_x : 0..MaxH, r : 0..MaxR, s : 1..MaxS, p : {5, 7}, q : 2..MaxQ,
     g : GWords]

InitProver ==
    /\ circuit \in ProverCircuits
    /\ gad = NoGadget
    /\ Fresh

NextProver ==
    \/ Synthesis
    \/ Verify
    \/ VerifyTampered
    \/ VerifyForgedExponentiation
    \/ VerifyForgedResidues

SpecProver == InitProver /\ [][NextProver]_allvars

(***************************************************************************)
(* SpecGadget: one modular-reduction block on its own, over operands a, b  *)
(* and a public modulus m, with the supplied remainder off by delta.       *)
(***************************************************************************)
InitGadget ==
    /\ gad \in [a : 0..MaxOperand, b : 0..MaxOperand, m : 1..MaxModulus,
                delta : (0 - MaxDelta)..MaxDelta]
    /\ circuit = [y |-> 0, h_x |-> 0, r |-> 0, s |-> 0, p |-> 0, q |-> 0, g |-> 0]
    /\ Fresh

\* the modulus is a public input; the operands and the expected remainder
\* are witnesses allocated before the block, as w, h_x and u1 are
GadgetAllocate ==
    /\ pc = "start"
    /\ LET n0 == new_input_variable(cs, gad.m)
           n1 == new_witness_variable(n0.cs, gad.a)
           n2 == new_witness_variable(n1.cs, gad.b)
           n3 == new_witness_variable(n2.cs, (gad.a * gad.b) % gad.m)
       IN  /\ cs' = n3.cs
           /\ vars' = vars @@ ("m" :> n0.var) @@ ("a" :> n1.var) @@ ("b" :> n2.var)
                           @@ ("expected" :> n3.var)
    /\ pc' = "block"
    /\ UNCHANGED <<circuit, result, wrapped, loc, public_inputs, assignment, is_valid, gad>>

GadgetEmit ==
    /\ pc = "block"
    /\ LET prod == gad.a * gad.b
           blk == GadgetBlock(cs, vars, <<"product", "remainder", "quotient",
                                          "quotient_times_modulus">>,
                              vars["a"], vars["b"], vars["m"],
                              prod, (prod % gad.m) + gad.delta, prod \div gad.m,
                              gad.m * (prod \div gad.m), vars["expected"])
       IN  /\ cs' = blk.cs
           /\ vars' = blk.vars
    /\ result' = "Ok"
    /\ pc' = "done"
    /\ UNCHANGED <<circuit, wrapped, loc, public_inputs, assignment, is_valid, gad>>

GadgetVerify == VerifyWith(<<gad.m>>, cs.witness_assignment)

NextGadget ==
    \/ GadgetAllocate
    \/ GadgetEmit
    \/ GadgetVerify

SpecGadget == InitGadget /\ [][NextGadget]_allvars

(***************************************************************************)
(* Arithmetic over the unbounded integers, to state the claims against.    *)
(***************************************************************************)
RECURSIVE Gcd(_, _)
Gcd(a, b) == IF b = 0 THEN a ELSE Gcd(b, a % b)

\* b^e mod m, for m > 0
RECURSIVE PowMod(_, _, _)
PowMod(b, e, m) == IF e = 0 THEN 1 % m ELSE (b * PowMod(b, e - 1, m)) % m

\* s has an inverse modulo q
Invertible(s, q) == Gcd(s, q) = 1

\* the inverse of s modulo q, for q > 0 and s invertible
Inverse(s, q) == CHOOSE w \in 0..(q - 1) : (s * w) % q = 1 % q

\* the witnesses of an honest DSA verification, over the integers
TrueW(c) == Inverse(c.s, c.q)
TrueU1(c) == (c.h_x * TrueW(c)) % c.q
TrueU2(c) == (c.r * TrueW(c)) % c.q
TrueGU1(c) == PowMod(c.g, TrueU1(c), c.p)
TrueYU2(c) == PowMod(c.y, TrueU2(c), c.p)
TrueV(c) == (TrueGU1(c) * TrueYU2(c)) % c.p

\* true DSA validity of the tuple
DSAValid(c) ==
    /\ c.p > 0
    /\ c.q > 0
    /\ Invertible(c.s, c.q)
    /\ TrueV(c) % c.q = c.r % c.q

Example == [y |-> 3, h_x |-> 2, r |-> 2, s |-> 2, p |-> 7, q |-> 3, g |-> 3]

\* the assignment synthesis produced satisfies every emitted constraint
HonestlySatisfied ==
    Satisfied(cs.constraints, cs.instance_assignment, cs.witness_assignment)

(***************************************************************************)
(* C1. For every tuple that satisfies true DSA validity, synthesis returns *)
(* Ok, the assignment it produces satisfies every emitted constraint, and  *)
(* the proof verifies against (y, h_x, r, s, p, q, g).                     *)
(* Violated: with q = 1 the inverse is 0 and the constraint                *)
(* ws_remainder = 1 cannot hold; with large words the products overflow.   *)
(***************************************************************************)
C1_ValidTupleVerifies ==
    (DSAValid(circuit) /\ pc # "start") =>
        /\ result \notin {"Err", "Panic"}
        /\ (result = "Ok" => HonestlySatisfied)
        /\ (pc = "verified" => is_valid = "accept")

\* C1, the worked example alone: its witnesses are those of the
\* specification and its proof verifies.
C1_ExampleVerifies ==
    (circuit = Example /\ pc # "start") =>
        /\ result \notin {"Err", "Panic"}
        /\ <<loc.w, loc.u1, loc.u2, loc.g_u1, loc.y_u2, loc.v, loc.v_mod_q, loc.r_mod_q>>
             = <<2, 1, 1, 3, 3, 2, 2, 2>>
        /\ (pc = "verified" => is_valid = "accept")

(***************************************************************************)
(* C2. Whenever s has no inverse modulo q (gcd(s, q) # 1, which covers     *)
(* s = 0), generate_constraints ends with the error of modular_inverse:    *)
(* never Ok, never a panic, the same on every run.                         *)
(* Violated: q is cast to a signed word, so for q above the sign bit the   *)
(* gcd is taken of other numbers.                                          *)
(***************************************************************************)
C2_NoInverseIsError ==
    (~Invertible(circuit.s, circuit.q) /\ pc # "start") => result = "Err"

(***************************************************************************)
(* C6. Whenever p = 0 or q = 0, generate_constraints ends by returning a   *)
(* synthesis error: it neither panics nor returns Ok.                      *)
(* Violated: the remainder by a zero modulus panics.                       *)
(***************************************************************************)
C6_ZeroModulusIsError ==
    ((circuit.p = 0 \/ circuit.q = 0) /\ pc # "start") => result = "Err"

(***************************************************************************)
(* C7. Exactly seven public inputs are allocated, in the order y, h_x, r,  *)
(* s, p, q, g, all of them before any witness is allocated and before any  *)
(* constraint is enforced; the vector given to verify lists the same       *)
(* values in the same order.                                               *)
(***************************************************************************)
C7_PublicInputOrder ==
    /\ \A i \in 1..Len(cs.log) : (cs.log[i] = "input") <=> (i <= 7)
    /\ (Len(cs.log) > 7 =>
            cs.instance_assignment = <<1, circuit.y, circuit.h_x, circuit.r, circuit.s,
                                       circuit.p, circuit.q, circuit.g>>)
    /\ (result = "Ok" =>
            /\ Len(cs.instance_assignment) = 8
            /\ <<vars["y"], vars["h_x"], vars["r"], vars["s"], vars["p"], vars["q"],
                 vars["g"]>> = [i \in 1..7 |-> Instance(i)])
    /\ (pc = "verified" => <<1>> \o public_inputs = cs.instance_assignment)

C7_Witness ==
    /\ pc = "verified"
    /\ circuit = Example
    /\ public_inputs = <<3, 2, 2, 2, 7, 3, 3>>

(***************************************************************************)
(* C9. When s has no inverse modulo q, generate_constraints returns the    *)
(* error before it touches the constraint system: no public input, no      *)
(* witness and no constraint has been added.                               *)
(***************************************************************************)
C9_ErrorLeavesSystemUntouched ==
    result = "Err" => cs = EmptyCS

C9_Witness ==
    /\ result = "Err"
    /\ circuit.s = 2
    /\ circuit.q = 4
    /\ cs.log = <<>>

(***************************************************************************)
(* C10. For single-word inputs with s invertible modulo q and p, q         *)
(* non-zero, every intermediate value of the witness computation equals    *)
(* the value of the same expression over the unbounded integers: nothing   *)
(* wraps and the signed cast changes nothing.                              *)
(* Violated: h_x * w, r * w, w * s and the products of the exponentiation  *)
(* exceed a word, and modular_inverse reads s and q as signed.             *)
(***************************************************************************)
\* the value of the loop of modular_exponentiation over the integers: the
\* result starts at 1 and is reduced only when it is multiplied
ExactModExp(b, e, m) == IF e = 0 THEN 1 ELSE PowMod(b, e, m)

SingleWord(c) == \A n \in DOMAIN c : c[n] \in 0..(WordMod - 1)

C10_TrueIntegerArithmetic ==
    (/\ SingleWord(circuit)
     /\ Invertible(circuit.s, circuit.q)
     /\ circuit.p > 0
     /\ circuit.q > 0
     /\ pc # "start") =>
        /\ result \notin {"Err", "Panic"}
        /\ ~wrapped
        /\ <<loc.w, loc.u1, loc.u2, loc.g_u1, loc.y_u2, loc.v>>
             = <<TrueW(circuit), TrueU1(circuit), TrueU2(circuit),
                 ExactModExp(circuit.g, TrueU1(circuit), circuit.p),
                 ExactModExp(circuit.y, TrueU2(circuit), circuit.p),
                 (ExactModExp(circuit.g, TrueU1(circuit), circuit.p)
                    * ExactModExp(circuit.y, TrueU2(circuit), circuit.p)) % circuit.p>>
        /\ ("ws" \in DOMAIN vars =>
                ValueIn(cs.witness_assignment, "ws") = TrueW(circuit) * circuit.s)

(***************************************************************************)
(* C3. Tamper detection. The proof is made from the assignment synthesis   *)
(* produced, which satisfies every constraint, and is verified against a   *)
(* vector that differs from the circuit's values in exactly one position.  *)
(***************************************************************************)
\* the positions where the vector given to verify differs from the circuit
TamperedAt == {i \in 1..Len(public_inputs) : public_inputs[i] # PublicInputs(circuit)[i]}

TamperCase(i) ==
    /\ pc = "verified"
    /\ assignment = cs.witness_assignment
    /\ HonestlySatisfied
    /\ TamperedAt = {i}

C4_ConstraintsProveRelation ==
    (/\ pc = "verified"
     /\ is_valid = "accept"
     /\ public_inputs[5] > 0
     /\ public_inputs[6] > 0) =>
        LET p == public_inputs[5]
            q == public_inputs[6]
            r == public_inputs[3]
            v == ValueIn(assignment, "v")
        IN  /\ v % p = (ValueIn(assignment, "g_u1") * ValueIn(assignment, "y_u2")) % p
            /\ ValueIn(assignment, "v_mod_q") = v % q
            /\ ValueIn(assignment, "r_mod_q") = r % q
            /\ v % q = r % q

(***************************************************************************)
(* C8. The exponentiation is unconstrained: no emitted constraint mentions *)
(* y or g, g_u1 and y_u2 occur in one constraint only, g_u1 * y_u2 =       *)
(* v_product, and for every tuple whose honest assignment satisfies the    *)
(* constraints there is another assignment, with g_u1 # g^u1 mod p or      *)
(* y_u2 # y^u2 mod p but v = g_u1 * y_u2 mod p and v mod q = r mod q, that *)
(* satisfies every emitted constraint.                                     *)
(***************************************************************************)
RECURSIVE VarsOfLC(_)
VarsOfLC(lc) == IF lc = <<>> THEN {} ELSE {Head(lc)[2]} \cup VarsOfLC(Tail(lc))

VarsOf(k) == VarsOfLC(k.a) \cup VarsOfLC(k.b) \cup VarsOfLC(k.c)

Mentioning(var) == {i \in 1..Len(cs.constraints) : var \in VarsOf(cs.constraints[i])}

ForgedPairs ==
    {gy \in (0..MaxForge) \X (0..MaxForge) :
        /\ (gy[1] # TrueGU1(circuit) \/ gy[2] # TrueYU2(circuit))
        /\ (gy[1] * gy[2]) % circuit.p = loc.v
        /\ loc.v % circuit.q = circuit.r % circuit.q}

C8_ExponentiationUnconstrained ==
    (result = "Ok" /\ pc = "done") =>
        /\ Mentioning(vars["y"]) = {}
        /\ Mentioning(vars["g"]) = {}
        /\ Mentioning(vars["g_u1"]) = Mentioning(vars["y_u2"])
        /\ \A i \in Mentioning(vars["g_u1"]) :
               VarsOf(cs.constraints[i]) = {vars["g_u1"], vars["y_u2"], vars["v_product"]}
        /\ Cardinality(Mentioning(vars["g_u1"])) = 1
        /\ (HonestlySatisfied =>
               \E gy \in ForgedPairs :
                   Satisfied(cs.constraints, cs.instance_assignment,
                             ForgeExponentiation(cs.witness_assignment, gy[1], gy[2])))

\* a proof made from g_u1 = 1, y_u2 = 9 instead of 3, 3 verified for the
\* example tuple
C8_Witness ==
    /\ pc = "verified"
    /\ circuit = Example
    /\ public_inputs = PublicInputs(circuit)
    /\ ValueIn(assignment, "g_u1") = 1
    /\ ValueIn(assignment, "y_u2") = 9
    /\ ValueIn(assignment, "v") = 2
    /\ is_valid = "accept"

(***************************************************************************)
(* C5. Gadget round trip: a block over a * b and m is satisfied when the   *)
(* quotient is (a * b) div m and the remainder (a * b) mod m; when the     *)
(* supplied remainder is off by a non-zero amount and the other values     *)
(* are kept, an equality constraint of the block is violated.              *)
(***************************************************************************)
BlockHolds(i) ==
    ConstraintHolds(cs.constraints[i], <<1>> \o public_inputs, assignment)

C5_GadgetRoundTrip ==
    pc = "verified" =>
        /\ (gad.delta = 0 => is_valid = "accept")
        /\ (gad.delta # 0 =>
                /\ is_valid = "reject"
                /\ BlockHolds(1)
                /\ BlockHolds(2)
                /\ ~BlockHolds(3)
                /\ ~BlockHolds(4))

C5_Witness ==
    /\ pc = "verified"
    /\ gad = [a |-> 3, b |-> 4, m |-> 4, delta |-> 1]
    /\ ValueIn(assignment, "quotient") = 3
    /\ ValueIn(assignment, "remainder") = 1
    /\ is_valid = "reject"

====
